---- MODULE Spec2Model ----
(***************************************************************************)
(* Will-writing service backend (src/main.py, src/schemas.py): the plan    *)
(* catalog with its default seeding, and the order workflow (create, get,  *)
(* pay) over the document store's "plan" and "order" collections.          *)
(*                                                                         *)
(* Spec     : the handlers run one after another, each as one action.      *)
(* ConcSpec : worker threads run the handlers concurrently; every store    *)
(*            round trip (find, insert, update) is one atomic step.        *)
(***************************************************************************)
EXTENDS Integers, Sequences, FiniteSets, TLC

VARIABLES
    db,         \* TRUE iff the module-level store handle is not None
    plan,       \* the "plan" collection, documents in insertion order
    order,      \* the "order" collection, documents in insertion order
    nextOid,    \* the ObjectId generator's counter
    now,        \* the wall clock read by datetime.utcnow(), in seconds
    resp,       \* Spec: the response of the last handler that ran
    pc,         \* ConcSpec: each worker's position in its handler
    loc,        \* ConcSpec: each worker's local variables
    ret,        \* ConcSpec: each worker's last response
    lastWrite,  \* ConcSpec, history: <<order id, $set document>> of the last update_one issued per order
    generated   \* ConcSpec, history: the <<order id, payment reference>> pairs pay_order generated

vars == <<db, plan, order, nextOid, now, resp, pc, loc, ret, lastWrite, generated>>

storeVars == <<db, plan, order, nextOid>>
concVars == <<pc, loc, ret>>

----------------------------------------------------------------------------
(* Bounds of the model *)

\* hex digits in the text of an ObjectId (24 in bson)
OidLen == 2
\* first value of the ObjectId counter
OidStart == 7
\* plan documents the model lets the collection hold
MaxPlanDocs == 6
\* order documents the model lets the collection hold under Spec
MaxOrders == 2
\* order documents the model lets the collection hold under ConcSpec
MaxConcOrders == 1
\* last second the clock reaches
MaxTime == 1
\* worker threads serving requests concurrently
NumProcs == 2

\* order_id[-6:] in pay_order
RefSuffixLen == 6

Procs == 1..NumProcs

----------------------------------------------------------------------------
(* Optional values: None is the empty sequence, a value v is <<v>> *)

None == <<>>
Some(v) == <<v>>

----------------------------------------------------------------------------
(* ObjectId: OidLen nibbles; its text is lower-case hex *)

HexChars == <<"0", "1", "2", "3", "4", "5", "6", "7", "8", "9", "a", "b", "c", "d", "e", "f">>
UpperHexChars == <<"0", "1", "2", "3", "4", "5", "6", "7", "8", "9", "A", "B", "C", "D", "E", "F">>

IsLower(c) == \E v \in 1..16 : HexChars[v] = c

IsHex(c) == \E v \in 1..16 : HexChars[v] = c \/ UpperHexChars[v] = c

HexVal(c) == CHOOSE v \in 0..15 : HexChars[v + 1] = c \/ UpperHexChars[v + 1] = c

\* str.upper() on one character
UpperChar(c) == IF IsLower(c) THEN UpperHexChars[HexVal(c) + 1] ELSE c

Upper(s) == [i \in 1..Len(s) |-> UpperChar(s[i])]

RECURSIVE Pow16(_)
Pow16(k) == IF k = 0 THEN 1 ELSE 16 * Pow16(k - 1)

\* the ObjectId the generator hands out for counter value n
NewOid(n) == [i \in 1..OidLen |-> (n \div Pow16(OidLen - i)) % 16]

\* str(ObjectId)
StrOid(o) == [i \in 1..Len(o) |-> HexChars[o[i] + 1]]

\* ObjectId(oid_str) succeeds
ValidOid(s) == Len(s) = OidLen /\ \A i \in 1..Len(s) : IsHex(s[i])

\* ObjectId(oid_str), for a string it accepts
ParseOid(s) == [i \in 1..Len(s) |-> HexVal(s[i])]

\* mutant: a string ObjectId() rejects is looked up as the zero id instead of raising 400
oidLenient(s) == IF ValidOid(s) THEN Some(ParseOid(s)) ELSE Some(NewOid(0))

\* oid(): the parsed id, or None where the handler raises 400
oid(s) == IF ValidOid(s) THEN Some(ParseOid(s)) ELSE None

\* s[-k:]
LastK(s, k) == IF Len(s) <= k THEN s ELSE SubSeq(s, Len(s) - k + 1, Len(s))

----------------------------------------------------------------------------
(* The store's interface *)

\* collection.find_one({"_id": o})
FindOne(coll, o) ==
    IF \E i \in 1..Len(coll) : coll[i]._id = o
    THEN Some(coll[CHOOSE i \in 1..Len(coll) :
                     coll[i]._id = o /\ \A j \in 1..(i - 1) : coll[j]._id # o])
    ELSE None

\* collection.insert_many(docs), ids taken from the generator starting at n
InsertMany(coll, docs, n) ==
    coll \o [i \in 1..Len(docs) |->
               [f \in DOMAIN docs[i] \cup {"_id"} |->
                  IF f = "_id" THEN NewOid(n + i - 1) ELSE docs[i][f]]]

\* mutant: the update is applied only while the order is still "created"
UpdateOneIfCreated(coll, o, fields) ==
    IF \A i \in 1..Len(coll) : coll[i]._id # o \/ coll[i].status # "created" THEN coll
    ELSE LET k == CHOOSE i \in 1..Len(coll) : coll[i]._id = o
         IN [coll EXCEPT ![k] =
               [f \in DOMAIN coll[k] \cup DOMAIN fields |->
                  IF f \in DOMAIN fields THEN fields[f] ELSE coll[k][f]]]

\* mutant: the update is applied only while no reference is stored (first writer wins)
UpdateOneFirstWins(coll, o, fields) ==
    IF \A i \in 1..Len(coll) : coll[i]._id # o \/ coll[i].payment_reference # None THEN coll
    ELSE LET k == CHOOSE i \in 1..Len(coll) : coll[i]._id = o
         IN [coll EXCEPT ![k] =
               [f \in DOMAIN coll[k] \cup DOMAIN fields |->
                  IF f \in DOMAIN fields THEN fields[f] ELSE coll[k][f]]]

\* mutant: update_many({}) in place of update_one: every document gets the fields
UpdateEvery(coll, o, fields) ==
    [k \in 1..Len(coll) |->
       [f \in DOMAIN coll[k] \cup DOMAIN fields |->
          IF f \in DOMAIN fields THEN fields[f] ELSE coll[k][f]]]

\* collection.update_one({"_id": o}, {"$set": fields})
UpdateOne(coll, o, fields) ==
    IF FindOne(coll, o) = None THEN coll
    ELSE LET k == CHOOSE i \in 1..Len(coll) :
                    coll[i]._id = o /\ \A j \in 1..(i - 1) : coll[j]._id # o
         IN [coll EXCEPT ![k] =
               [f \in DOMAIN coll[k] \cup DOMAIN fields |->
                  IF f \in DOMAIN fields THEN fields[f] ELSE coll[k][f]]]

\* doc["id"] = str(doc["_id"]); doc.pop("_id")
ToJson(doc) ==
    [f \in (DOMAIN doc \ {"_id"}) \cup {"id"} |->
       IF f = "id" THEN StrOid(doc._id) ELSE doc[f]]

\* truth value of the store handle ("if db")
Truthy(d) == d

----------------------------------------------------------------------------
(* Inputs *)

Fill(n, c) == [i \in 1..n |-> c]

\* strings ObjectId() rejects: of the wrong length, not hex
Malformed == {Fill(OidLen + 1, "0"), [i \in 1..OidLen |-> IF i = 1 THEN "g" ELSE "0"]}

\* id strings a client sends when the generator stands at n: the text of every id
\* handed out so far and of the next one (not created yet), in lower and upper case,
\* and malformed strings
InputIds(n) ==
    {StrOid(NewOid(k)) : k \in OidStart..n} \cup {Upper(StrOid(NewOid(k))) : k \in OidStart..n}
        \cup Malformed

\* request bodies of create_order without plan_id (CreateOrderBody): the optional
\* fields both absent and present
Bodies ==
    {[first_name |-> "Jane", last_name |-> "Doe", email |-> "jane@example.com",
      phone |-> None, address_line1 |-> "1 High St", address_line2 |-> Some("Flat 3"),
      city |-> "Leeds", state |-> None, postal_code |-> "LS1", country |-> "UK",
      notes |-> Some("call first")]}

BodyFields ==
    {"first_name", "last_name", "email", "phone", "address_line1", "address_line2",
     "city", "state", "postal_code", "country", "notes"}

----------------------------------------------------------------------------
(* Plan catalog *)

\* the three default plans of ensure_default_plans, stamped at time t
defaults(t) ==
    <<[name |-> "Essential Will",
       description |-> "A legally valid simple Will for a single person.",
       price |-> 79,
       features |-> <<"Legally valid simple Will", "Appointment of executors",
                      "Basic gifts and bequests">>,
       created_at |-> t, updated_at |-> t],
      [name |-> "Couples Will",
       description |-> "Mirror Wills for couples with aligned wishes.",
       price |-> 129,
       features |-> <<"Two matching Wills", "Guardians for children",
                      "Replacement executors">>,
       created_at |-> t, updated_at |-> t],
      [name |-> "Premium Estate Plan",
       description |-> "Comprehensive Will with additional estate planning guidance.",
       price |-> 199,
       features |-> <<"Complex gifts and trusts", "Digital asset wishes",
                      "One review session">>,
       created_at |-> t, updated_at |-> t]>>

\* existing = list(db["plan"].find({})) if db else []
ReadExisting(d, coll) == IF Truthy(d) THEN coll ELSE <<>>

\* mutant: the emptiness test is dropped, every call seeds
ShouldSeedAlways(existing, d) == d

\* if not existing and db is not None
ShouldSeed(existing, d) == existing = <<>> /\ d

\* the body of the list_plans response
PlansJson(plans) == [i \in 1..Len(plans) |-> ToJson(plans[i])]

----------------------------------------------------------------------------
(* Order workflow *)

\* mutant: total is left at zero instead of the plan's price
OrderSchemaNoTotal(planDoc, body) ==
    [f \in BodyFields \cup {"plan_id", "plan_name", "plan_price", "status",
                            "payment_reference", "total"} |->
       CASE f = "plan_id" -> StrOid(planDoc._id)
         [] f = "plan_name" -> planDoc.name
         [] f = "plan_price" -> planDoc.price
         [] f = "status" -> "created"
         [] f = "payment_reference" -> None
         [] f = "total" -> 0
         [] OTHER -> body[f]]

\* OrderSchema(...) as create_order builds it from the plan document and the body
OrderSchema(planDoc, body) ==
    [f \in BodyFields \cup {"plan_id", "plan_name", "plan_price", "status",
                            "payment_reference", "total"} |->
       CASE f = "plan_id" -> StrOid(planDoc._id)
         [] f = "plan_name" -> planDoc.name
         [] f = "plan_price" -> planDoc.price
         [] f = "status" -> "created"
         [] f = "payment_reference" -> None
         [] f = "total" -> planDoc.price
         [] OTHER -> body[f]]

\* create_document(collection, data): the collection after the insert, stamped at t
create_document(coll, data, n, t) ==
    InsertMany(coll,
               <<[f \in DOMAIN data \cup {"created_at", "updated_at"} |->
                    IF f \in {"created_at", "updated_at"} THEN t ELSE data[f]]>>,
               n)

\* payment_ref = f"PMT-{order_id[-6:].upper()}-{int(utcnow().timestamp())}"
PaymentRef(order_id, t) == <<"PMT", Upper(LastK(order_id, RefSuffixLen)), t>>

\* mutant: the payment fails instead of being approved
PayFieldsFailed(ref, t) == [status |-> "failed", payment_reference |-> Some(ref), updated_at |-> t]

\* mutant: the reference is not stored
PayFieldsNoRef(ref, t) == [status |-> "paid", updated_at |-> t]

\* mutant: a fixed reference is stored instead of the generated one
PayFieldsFixedRef(ref, t) ==
    [status |-> "paid", payment_reference |-> Some(<<"PMT", <<>>, 0>>), updated_at |-> t]

\* the $set document of pay_order's update_one
PayFields(ref, t) == [status |-> "paid", payment_reference |-> Some(ref), updated_at |-> t]

----------------------------------------------------------------------------
(* Initial state: the module is imported, the store is empty *)

Idle == [op |-> "none"]

\* no response pending
NoRet == [op |-> "none", code |-> 0]

Init ==
    /\ db \in BOOLEAN
    /\ plan = <<>>
    /\ order = <<>>
    /\ nextOid = OidStart
    /\ now = 0
    /\ resp = NoRet
    /\ pc = [p \in Procs |-> "idle"]
    /\ loc = [p \in Procs |-> Idle]
    /\ ret = [p \in Procs |-> NoRet]
    /\ lastWrite = {}
    /\ generated = {}

\* time passes between requests (under ConcSpec: between any two steps of the workers)
Tick ==
    /\ now < MaxTime
    /\ resp = NoRet
    /\ \A p \in Procs : pc[p] # "done"
    /\ now' = now + 1
    /\ UNCHANGED <<storeVars, resp, concVars, lastWrite, generated>>

\* HTTPException(status_code, detail)
Error(op, arg, code, detail) == [op |-> op, arg |-> arg, code |-> code, detail |-> detail]

----------------------------------------------------------------------------
(* Spec: each handler as one action.  Timestamps are whole seconds.  The clock        *)
(* advances between requests and, inside pay_order, between its two reads (lines 170 *)
(* and 174); the stamps of one insert are taken within one second.                  *)

\* GET /api/plans
list_plans ==
    /\ resp = NoRet
    /\ IF ~db
       THEN /\ resp' = Error("list_plans", None, 500, "Database not configured")
            /\ UNCHANGED <<plan, nextOid>>
       ELSE LET existing == ReadExisting(db, plan)
                seed == ShouldSeed(existing, db)
                after == IF seed THEN InsertMany(plan, defaults(now), nextOid) ELSE plan
                result == IF seed THEN after ELSE existing
            IN /\ plan' = after
               /\ nextOid' = IF seed THEN nextOid + 3 ELSE nextOid
               /\ resp' = [op |-> "list_plans", arg |-> None, code |-> 200,
                           existing |-> existing, body |-> PlansJson(result)]
    /\ UNCHANGED <<db, order, now, concVars, lastWrite, generated>>

\* POST /api/orders
create_order(body, plan_id) ==
    LET parsed == oid(plan_id)
        found == FindOne(plan, parsed[1])
    IN
    /\ resp = NoRet
    /\ IF ~db
       THEN /\ resp' = Error("create_order", plan_id, 500, "Database not configured")
            /\ UNCHANGED <<order, nextOid>>
       ELSE IF parsed = None
       THEN /\ resp' = Error("create_order", plan_id, 400, "Invalid ID format")
            /\ UNCHANGED <<order, nextOid>>
       ELSE IF found = None
       THEN /\ resp' = Error("create_order", plan_id, 404, "Plan not found")
            /\ UNCHANGED <<order, nextOid>>
       ELSE LET plan_doc == found[1]
                inserted_id == StrOid(NewOid(nextOid))
                after == create_document(order, OrderSchema(plan_doc, body), nextOid, now)
                created == FindOne(after, ParseOid(inserted_id))[1]
            IN /\ Len(order) < MaxOrders
               /\ order' = after
               /\ nextOid' = nextOid + 1
               /\ resp' = [op |-> "create_order", arg |-> plan_id, code |-> 200,
                           plan_doc |-> plan_doc, request |-> body, body |-> ToJson(created)]
    /\ UNCHANGED <<db, plan, now, concVars, lastWrite, generated>>

\* GET /api/orders/{order_id}
get_order(order_id) ==
    LET parsed == oid(order_id)
        doc == FindOne(order, parsed[1])
    IN
    /\ resp = NoRet
    /\ resp' = IF ~db THEN Error("get_order", order_id, 500, "Database not configured")
               ELSE IF parsed = None
               THEN Error("get_order", order_id, 400, "Invalid ID format")
               ELSE IF doc = None
               THEN Error("get_order", order_id, 404, "Order not found")
               ELSE [op |-> "get_order", arg |-> order_id, code |-> 200,
                     body |-> ToJson(doc[1])]
    /\ UNCHANGED <<storeVars, now, concVars, lastWrite, generated>>

\* POST /api/orders/{order_id}/pay; t is the clock at the second utcnow() (line 174)
pay_order(order_id, t) ==
    LET parsed == oid(order_id)
        doc == FindOne(order, parsed[1])
    IN
    /\ resp = NoRet
    /\ IF ~db
       THEN /\ resp' = Error("pay_order", order_id, 500, "Database not configured")
            /\ UNCHANGED <<order, now>>
       ELSE IF parsed = None
       THEN /\ resp' = Error("pay_order", order_id, 400, "Invalid ID format")
            /\ UNCHANGED <<order, now>>
       ELSE IF doc = None
       THEN /\ resp' = Error("pay_order", order_id, 404, "Order not found")
            /\ UNCHANGED <<order, now>>
       ELSE LET payment_ref == PaymentRef(order_id, now)
                fields == PayFields(payment_ref, t)
                after == UpdateOne(order, parsed[1], fields)
                updated == FindOne(after, parsed[1])[1]
            IN /\ order' = after
               /\ now' = t
               /\ resp' = [op |-> "pay_order", arg |-> order_id, code |-> 200,
                           doc |-> doc[1], payment_ref |-> payment_ref,
                           body |-> ToJson(updated)]
    /\ UNCHANGED <<db, plan, nextOid, concVars, lastWrite, generated>>

\* the response is sent; the next request can be served
Respond ==
    /\ resp # NoRet
    /\ resp' = NoRet
    /\ UNCHANGED <<storeVars, now, concVars, lastWrite, generated>>

Next ==
    \/ Tick
    \/ Respond
    \/ list_plans
    \/ resp = NoRet /\ \E body \in Bodies, plan_id \in InputIds(nextOid) : create_order(body, plan_id)
    \/ resp = NoRet /\ \E order_id \in InputIds(nextOid) : get_order(order_id)
    \/ resp = NoRet /\ \E order_id \in InputIds(nextOid), t \in now..MaxTime : pay_order(order_id, t)

Spec == Init /\ [][Next]_vars

----------------------------------------------------------------------------
(* ConcSpec: the handlers run on worker threads; each store round trip is a step *)

\* worker p ends its handler with response r
Finish(p, r) ==
    /\ pc' = [pc EXCEPT ![p] = "done"]
    /\ loc' = [loc EXCEPT ![p] = Idle]
    /\ ret' = [ret EXCEPT ![p] = r]

\* worker p moves to position at with locals l
Goto(p, at, l) ==
    /\ pc' = [pc EXCEPT ![p] = at]
    /\ loc' = [loc EXCEPT ![p] = l]
    /\ UNCHANGED ret

\* the response is sent; the worker is free again
Return(p) ==
    /\ pc[p] = "done"
    /\ pc' = [pc EXCEPT ![p] = "idle"]
    /\ ret' = [ret EXCEPT ![p] = NoRet]
    /\ UNCHANGED <<storeVars, now, resp, loc, lastWrite, generated>>

\* HTTPException(status_code, detail) as the client sees it
Fail(op, code, detail) == [op |-> op, code |-> code, detail |-> detail]

\* list_plans, lines 107-109 and ensure_default_plans line 39-40: the first read
LpRead(p) ==
    /\ pc[p] = "idle"
    /\ IF ~db
       THEN Finish(p, Fail("list_plans", 500, "Database not configured"))
       ELSE LET existing == ReadExisting(db, plan)
            IN IF ShouldSeed(existing, db)
               THEN Goto(p, "lp_insert", [op |-> "list_plans"])
               ELSE Finish(p, [op |-> "list_plans", code |-> 200, body |-> PlansJson(existing)])
    /\ UNCHANGED <<storeVars, now, resp, lastWrite, generated>>

\* ensure_default_plans lines 41-76: insert_many(defaults)
LpInsert(p) ==
    /\ pc[p] = "lp_insert"
    /\ Len(plan) + 3 <= MaxPlanDocs
    /\ plan' = InsertMany(plan, defaults(now), nextOid)
    /\ nextOid' = nextOid + 3
    /\ Goto(p, "lp_reread", loc[p])
    /\ UNCHANGED <<db, order, now, resp, lastWrite, generated>>

\* ensure_default_plans line 77 and list_plans lines 111-114: the second read
LpReread(p) ==
    /\ pc[p] = "lp_reread"
    /\ Finish(p, [op |-> "list_plans", code |-> 200, body |-> PlansJson(plan)])
    /\ UNCHANGED <<storeVars, now, resp, lastWrite, generated>>

\* create_order lines 119-124: the plan lookup
CoLookup(p, body, plan_id) ==
    LET parsed == oid(plan_id)
        found == FindOne(plan, parsed[1])
    IN
    /\ pc[p] = "idle"
    /\ IF ~db
       THEN Finish(p, Fail("create_order", 500, "Database not configured"))
       ELSE IF parsed = None
       THEN Finish(p, Fail("create_order", 400, "Invalid ID format"))
       ELSE IF found = None
       THEN Finish(p, Fail("create_order", 404, "Plan not found"))
       ELSE Goto(p, "co_insert", [op |-> "create_order", request |-> body,
                                  plan_doc |-> found[1]])
    /\ UNCHANGED <<storeVars, now, resp, lastWrite, generated>>

\* create_order lines 126-144: build the order and insert it
CoInsert(p) ==
    /\ pc[p] = "co_insert"
    /\ Len(order) < MaxConcOrders
    /\ order' = create_document(order, OrderSchema(loc[p].plan_doc, loc[p].request), nextOid, now)
    /\ nextOid' = nextOid + 1
    /\ Goto(p, "co_reread", [op |-> "create_order", inserted_id |-> StrOid(NewOid(nextOid))])
    /\ UNCHANGED <<db, plan, now, resp, lastWrite, generated>>

\* create_order lines 145-147: read the order back
CoReread(p) ==
    LET created == FindOne(order, ParseOid(loc[p].inserted_id))
    IN
    /\ pc[p] = "co_reread"
    /\ IF created = None
       THEN Finish(p, Fail("create_order", 500, "Internal Server Error"))
       ELSE Finish(p, [op |-> "create_order", code |-> 200, body |-> ToJson(created[1])])
    /\ UNCHANGED <<storeVars, now, resp, lastWrite, generated>>

\* get_order, as one step: it makes one round trip
GetOrder(p, order_id) ==
    LET parsed == oid(order_id)
        doc == FindOne(order, parsed[1])
    IN
    /\ pc[p] = "idle"
    /\ Finish(p, IF ~db THEN Fail("get_order", 500, "Database not configured")
                  ELSE IF parsed = None THEN Fail("get_order", 400, "Invalid ID format")
                  ELSE IF doc = None THEN Fail("get_order", 404, "Order not found")
                  ELSE [op |-> "get_order", code |-> 200, body |-> ToJson(doc[1])])
    /\ UNCHANGED <<storeVars, now, resp, lastWrite, generated>>

\* pay_order lines 163-167: the lookup
PayLookup(p, order_id) ==
    LET parsed == oid(order_id)
        doc == FindOne(order, parsed[1])
    IN
    /\ pc[p] = "idle"
    /\ IF ~db
       THEN Finish(p, Fail("pay_order", 500, "Database not configured"))
       ELSE IF parsed = None
       THEN Finish(p, Fail("pay_order", 400, "Invalid ID format"))
       ELSE IF doc = None
       THEN Finish(p, Fail("pay_order", 404, "Order not found"))
       ELSE Goto(p, "pay_ref", [op |-> "pay_order", arg |-> order_id])
    /\ UNCHANGED <<storeVars, now, resp, lastWrite, generated>>

\* pay_order line 170: the payment reference, from the clock as it stands
PayRef(p) ==
    LET payment_ref == PaymentRef(loc[p].arg, now)
    IN
    /\ pc[p] = "pay_ref"
    /\ Goto(p, "pay_update", [op |-> "pay_order", arg |-> loc[p].arg,
                               payment_ref |-> payment_ref])
    /\ generated' = generated \cup {<<ParseOid(loc[p].arg), payment_ref>>}
    /\ UNCHANGED <<storeVars, now, resp, lastWrite>>

\* pay_order lines 172-175: update_one
PayUpdate(p) ==
    LET o == oid(loc[p].arg)[1]
        fields == PayFields(loc[p].payment_ref, now)
    IN
    /\ pc[p] = "pay_update"
    /\ order' = UpdateOne(order, o, fields)
    /\ lastWrite' = {w \in lastWrite : w[1] # o} \cup {<<o, fields>>}
    /\ Goto(p, "pay_reread", loc[p])
    /\ UNCHANGED <<db, plan, nextOid, now, resp, generated>>

\* pay_order lines 177-179: read the order back
PayReread(p) ==
    LET updated == FindOne(order, oid(loc[p].arg)[1])
    IN
    /\ pc[p] = "pay_reread"
    /\ IF updated = None
       THEN Finish(p, Fail("pay_order", 500, "Internal Server Error"))
       ELSE Finish(p, [op |-> "pay_order", code |-> 200, arg |-> loc[p].arg,
                       payment_ref |-> loc[p].payment_ref, body |-> ToJson(updated[1])])
    /\ UNCHANGED <<storeVars, now, resp, lastWrite, generated>>

ConcNext ==
    \/ Tick
    \/ \E p \in Procs : Return(p)
    \/ \E p \in Procs : LpRead(p)
    \/ \E p \in Procs : LpInsert(p)
    \/ \E p \in Procs : LpReread(p)
    \/ \E p \in Procs : pc[p] = "idle" /\ \E body \in Bodies, plan_id \in InputIds(nextOid) : CoLookup(p, body, plan_id)
    \/ \E p \in Procs : CoInsert(p)
    \/ \E p \in Procs : CoReread(p)
    \/ \E p \in Procs : pc[p] = "idle" /\ \E order_id \in InputIds(nextOid) : GetOrder(p, order_id)
    \/ \E p \in Procs : pc[p] = "idle" /\ \E order_id \in InputIds(nextOid) : PayLookup(p, order_id)
    \/ \E p \in Procs : PayRef(p)
    \/ \E p \in Procs : PayUpdate(p)
    \/ \E p \in Procs : PayReread(p)

ConcSpec == Init /\ [][ConcNext]_vars

----------------------------------------------------------------------------
(* Claims checked under Spec *)

\* the stored order a client's id string denotes (ids compare case-insensitively)
Denotes(coll, s) == {i \in 1..Len(coll) : Upper(StrOid(coll[i]._id)) = Upper(s)}

DefaultNames == <<"Essential Will", "Couples Will", "Premium Estate Plan">>

\* C1: with the store configured and list_plans calls running one after another, a
\* call that finds the plan collection empty inserts exactly the 3 default plans, a
\* call that finds plans inserts none, so the collection holds 0 plans before the
\* first call and exactly 3 after any number of calls, and each call returns them.
C1_SeedingIdempotent ==
    /\ Len(plan) \in {0, 3}
    /\ (db /\ resp.op = "list_plans") =>
          /\ resp.code = 200
          /\ Len(plan) = 3
          /\ \A i \in 1..3 : plan[i].name = DefaultNames[i]
          /\ resp.existing # <<>> => plan = resp.existing
          /\ Len(resp.body) = 3
          /\ \A i \in 1..3 :
                /\ resp.body[i].id = StrOid(plan[i]._id)
                /\ resp.body[i].name = plan[i].name
                /\ resp.body[i].price = plan[i].price

\* C1 witness: a later list_plans call found the 3 plans present and returned them
C1_Witness ==
    /\ db /\ resp.op = "list_plans" /\ resp.code = 200
    /\ Len(resp.existing) = 3 /\ Len(plan) = 3 /\ Len(order) > 0

\* C2: for every plan id that resolves to an existing plan, create_order succeeds and
\* returns the one order it stored, whose plan_name is the plan's name, whose
\* plan_price and total are the plan's price, whose status is "created" and whose
\* payment_reference is unset; every stored order has total = plan_price.
C2_OrderSnapshot ==
    /\ \A i \in 1..Len(order) : order[i].total = order[i].plan_price
    /\ (db /\ resp.op = "create_order" /\ Denotes(plan, resp.arg) # {}) => resp.code = 200
    /\ (resp.op = "create_order" /\ resp.code = 200) =>
          /\ Denotes(plan, resp.arg) # {}
          /\ \A i \in Denotes(plan, resp.arg) :
                /\ resp.body.plan_id = StrOid(plan[i]._id)
                /\ resp.body.plan_name = plan[i].name
                /\ resp.body.plan_price = plan[i].price
                /\ resp.body.total = plan[i].price
          /\ resp.body.status = "created"
          /\ resp.body.payment_reference = None
          /\ \A f \in BodyFields : resp.body[f] = resp.request[f]
          /\ Cardinality(Denotes(order, resp.body.id)) = 1
          /\ Denotes(order, resp.body.id) = {Len(order)}
          /\ ToJson(order[Len(order)]) = resp.body

\* C2 witness: create_order has just stored a second order, for the Couples plan
C2_Witness ==
    /\ resp.op = "create_order" /\ resp.code = 200
    /\ resp.body.plan_name = "Couples Will" /\ resp.body.total = 129
    /\ Len(order) = 2

\* the response to a malformed id is 400, to a well-formed id of no document 404
C3_State ==
    /\ (db /\ resp.op \in {"create_order", "get_order", "pay_order"}
           /\ resp.arg \in Malformed) => resp.code = 400
    /\ (db /\ resp.op = "create_order" /\ resp.arg \notin Malformed
           /\ Denotes(plan, resp.arg) = {}) => resp.code = 404
    /\ (db /\ resp.op \in {"get_order", "pay_order"} /\ resp.arg \notin Malformed
           /\ Denotes(order, resp.arg) = {}) => resp.code = 404

\* a handler that answers 400 or 404 leaves both collections as they were
C3_Step == (resp' # resp /\ resp'.code \in {400, 404}) => (plan' = plan /\ order' = order)

\* C3: with the store configured, a malformed id makes create_order, get_order and
\* pay_order fail with 400, a well-formed id that matches no plan (create_order) or
\* no order (get_order, pay_order) makes them fail with 404, and a call that fails
\* with 400 or 404 leaves the plan and order collections as they were.
C3_LookupErrors == []C3_State /\ [][C3_Step]_vars

\* C3 witness: pay_order on a well-formed id of no order failed with 404 while an order exists
C3_Witness ==
    /\ db /\ resp.op = "pay_order" /\ resp.code = 404 /\ resp.arg \notin Malformed
    /\ Len(order) > 0

\* C4: pay_order on an existing order succeeds whatever the order's status, returns it
\* with status "paid" and a non-empty payment_reference, and stores the reference and
\* updated_at of this call, overwriting those of an earlier call.
C4_PayAlwaysSucceeds ==
    /\ (db /\ resp.op = "pay_order" /\ Denotes(order, resp.arg) # {}) => resp.code = 200
    /\ (resp.op = "pay_order" /\ resp.code = 200) =>
          /\ resp.doc.status \in {"created", "paid"}
          /\ resp.body.status = "paid"
          /\ resp.body.payment_reference = Some(resp.payment_ref)
          /\ resp.payment_ref[1] = "PMT"
          /\ Len(resp.payment_ref[2]) > 0
          /\ resp.payment_ref[3] <= resp.body.updated_at
          /\ resp.body.updated_at = now
          /\ \A i \in Denotes(order, resp.arg) : ToJson(order[i]) = resp.body

\* C4 witness: pay_order ran on an order that was already paid and replaced its reference
C4_Witness ==
    /\ resp.op = "pay_order" /\ resp.code = 200
    /\ resp.doc.status = "paid"
    /\ resp.doc.payment_reference # resp.body.payment_reference
    /\ resp.doc.updated_at < resp.body.updated_at

\* fields of an order that pay_order sets
PaidFields == {"status", "payment_reference", "updated_at"}

\* every stored order is "created" or "paid"
C5_Statuses == \A i \in 1..Len(order) : order[i].status \in {"created", "paid"}

\* a step keeps every order, keeps a paid order paid, and changes a status only from
\* "created" to "paid"
C5_Step ==
    \A i \in 1..Len(order) :
       /\ i <= Len(order')
       /\ order[i].status = "paid" => order'[i].status = "paid"
       /\ order'[i].status # order[i].status =>
             (order[i].status = "created" /\ order'[i].status = "paid")

\* C5: every stored order has status "created" or "paid", and the only status change
\* any step makes is created -> paid: a paid order is never "created" again.
C5_StatusTransitions == []C5_Statuses /\ [][C5_Step]_vars

\* C5 witness: pay_order has just moved an order from "created" to "paid"
C5_Witness ==
    /\ resp.op = "pay_order" /\ resp.code = 200
    /\ resp.doc.status = "created" /\ resp.body.status = "paid"
    /\ \E i \in 1..Len(order) : order[i].status = "paid"

\* what one step may do to the stored orders and plans
C6_Step ==
    /\ Len(order') >= Len(order)
    /\ \A i \in 1..Len(order) :
          /\ \A f \in DOMAIN order[i] \ PaidFields : order'[i][f] = order[i][f]
          /\ DOMAIN order'[i] = DOMAIN order[i]
          /\ order'[i] # order[i] =>
                /\ resp'.op = "pay_order" /\ resp'.code = 200
                /\ i \in Denotes(order, resp'.arg)
    /\ plan' # plan => resp'.op = "list_plans"

\* C6: no step deletes or reorders an order; a step changes a stored order only if it
\* is pay_order on that order's id, and then only status, payment_reference and
\* updated_at; every other field keeps its creation-time value; plans change only by
\* list_plans.
C6_OrderFrame == [][C6_Step]_vars

\* C6 witness: of two stored orders pay_order has paid the second, the first is still "created"
C6_Witness ==
    /\ Len(order) = 2
    /\ resp.op = "pay_order" /\ resp.code = 200
    /\ Denotes(order, resp.arg) = {2}
    /\ order[1].status = "created" /\ order[2].status = "paid"

\* C7: a stored order has a payment_reference if and only if its status is "paid".
C7_RefIffPaid ==
    \A i \in 1..Len(order) : (order[i].payment_reference # None) <=> (order[i].status = "paid")

\* C7 witness: a paid order with its reference beside a created order without one
C7_Witness ==
    /\ Len(order) = 2
    /\ order[1].status = "paid" /\ order[1].payment_reference # None
    /\ order[2].status = "created" /\ order[2].payment_reference = None

----------------------------------------------------------------------------
(* Claims checked under ConcSpec *)

\* workers whose pay_order call has returned 200
PaidBy == {p \in Procs : pc[p] = "done" /\ ret[p].op = "pay_order" /\ ret[p].code = 200}

\* workers inside pay_order, after a lookup that found the order
Paying == {p \in Procs : pc[p] \in {"pay_ref", "pay_update", "pay_reread"}}

\* C8: when pay_order calls on one order interleave, all of them succeed, and the order
\* holds status "paid" with the payment_reference and updated_at of the update_one that
\* was applied last; the reference is one a pay_order call on this order generated.
C8_LastWriterWins ==
    /\ \A w \in lastWrite :
          /\ FindOne(order, w[1]) # None
          /\ FindOne(order, w[1])[1].status = "paid"
          /\ FindOne(order, w[1])[1].payment_reference = w[2].payment_reference
          /\ FindOne(order, w[1])[1].updated_at = w[2].updated_at
          /\ <<w[1], w[2].payment_reference[1]>> \in generated
    /\ \A p \in Paying : FindOne(order, ParseOid(loc[p].arg)) # None
    /\ \A p \in Procs : (pc[p] = "pay_reread") => (\E w \in lastWrite : w[1] = ParseOid(loc[p].arg))
    /\ \A p \in Procs :
          (db /\ pc[p] = "done" /\ ret[p].op = "pay_order" /\ ret[p].code \notin {400, 404})
             => ret[p].code = 200
    /\ \A p \in PaidBy :
          /\ \E w \in lastWrite : w[1] = ParseOid(ret[p].arg)
          /\ FindOne(order, ParseOid(ret[p].arg))[1].status = "paid"

\* C8 witness: two calls on one order generated different references, both returned
\* 200, and the first caller was handed the reference of the second
C8_Witness ==
    \E p, q \in PaidBy :
       /\ p # q
       /\ ParseOid(ret[p].arg) = ParseOid(ret[q].arg)
       /\ ret[p].payment_ref # ret[q].payment_ref
       /\ ret[p].body.payment_reference = Some(ret[q].payment_ref)
       /\ ret[q].body.payment_reference = Some(ret[q].payment_ref)

\* C9: under any interleaving of list_plans calls the plan collection holds 0 or 3
\* plans, never more.
C9_PlanCountStable == Len(plan) \in {0, 3}

\* C10: under any interleaving of the handlers, a pay_order call whose lookup found the
\* order finds it again in its re-read and returns status "paid" with a non-empty
\* payment_reference that a pay_order call on that order generated.
C10_PayReturnsPaid ==
    /\ \A p \in Procs :
          (pc[p] = "done" /\ ret[p].op = "pay_order") =>
             (ret[p].code = 500 => ret[p].detail = "Database not configured" /\ ~db)
    /\ \A p \in PaidBy :
          /\ ret[p].body.status = "paid"
          /\ ret[p].body.payment_reference # None
          /\ ret[p].body.payment_reference[1][1] = "PMT"
          /\ <<ParseOid(ret[p].arg), ret[p].body.payment_reference[1]>> \in generated
          /\ Upper(ret[p].body.id) = Upper(ret[p].arg)

\* C10 witness: a call returned a reference it did not generate itself while another
\* worker is creating an order
C10_Witness ==
    \E p \in PaidBy, q \in Procs :
       /\ ret[p].body.payment_reference # Some(ret[p].payment_ref)
       /\ pc[q] = "co_insert"

====
